---------------------------- MODULE Spec2Model ----------------------------
(***************************************************************************)
(* The communication layer of the chat frontend:                           *)
(*   - ChatWSClient (apps/web/src/lib/ws.ts): the WebSocket channel, its   *)
(*     heartbeat interval and its reconnect timers;                        *)
(*   - handleSend (components/chat/ChatInterface.tsx): one chat turn, its  *)
(*     choice of transport and the transcript;                             *)
(*   - ToolsClient.fetchWithRetry (lib/toolsClient.ts): the retry loop,    *)
(*     and Logger.sendToLoggingService (lib/logger.ts);                    *)
(*   - fetchWithTimeout (the API client) and apiFetch (store/index.ts):    *)
(*     one request and the classification of its failure;                  *)
(*   - chatStream (lib/stream.ts): the decoder of the streamed response;   *)
(*   - the auth, chat and deployment stores (store/index.ts) and the calls *)
(*     of their async operations.                                          *)
(* Every handler of the event loop is one action: JavaScript runs a        *)
(* handler to completion before the next event is taken.                   *)
(***************************************************************************)
EXTENDS Integers, Sequences, FiniteSets, Bags, TLC

(***************************************************************************)
(* Bounds of the model.                                                    *)
(***************************************************************************)
\* sockets one client may create in a run
MaxSockets == 5
\* the caller calls connect() only while the client has created fewer sockets
\* than this; the reconnect timers create the others
MaxCallerSockets == 3
\* largest explicit maxReconnectAttempts option explored
MaxAttemptsOpt == 2
\* chat turns one ChatInterface starts in a run
MaxTurns == 2
\* deltas one streamed response carries
MaxDeltas == 2

\* reviews that complete while the component is mounted
MaxReviews == 1
\* calls of the stores' async operations that are in flight at one time
MaxInFlight == 2
\* deployment requests created in a run
MaxRequests == 2
\* messages the chat store holds
MaxMessages == 4
\* largest retries option a ToolsClient is constructed with
MaxRetriesOpt == 2
\* calls of sendToLoggingService in a run
MaxLogCalls == 2
\* lines one streamed response body carries
MaxLines == 2

(***************************************************************************)
(* Program constants.                                                      *)
(***************************************************************************)
DefaultMaxReconnectAttempts == 5
RetryBaseMs == 1000
DefaultRetries == 1
BackoffBaseMs == 1000
BackoffCapMs == 8000
JitterSpanMs == 200

\* close codes a close event may carry: normal, going away, abnormal,
\* policy violation, internal error, and one application code
Codes == {1000, 1001, 1006, 1008, 1011, 4000}
NormalCodes == {1000, 1001}

\* the members of ChatEvents
EventNames == {"onDelta", "onDone", "onError", "onOpen", "onClose"}

\* samples of Math.floor(Math.random() * 200)
Jitters == {0, JitterSpanMs - 1}

\* the options a ChatWSClient may be constructed with
ReconnectOpts == (0 .. MaxAttemptsOpt) \cup {DefaultMaxReconnectAttempts}

VARIABLES
    socks,                \* socks[i]: readyState of the i-th WebSocket created
    ws,                   \* this.ws: index into socks, 0 for null
    pingInterval,         \* this.pingInterval: interval handle, 0 for null
    intervals,            \* handles of the setInterval timers still active
    attempt,              \* this.attempt
    reconnect,            \* this.reconnect
    maxReconnectAttempts, \* this.maxReconnectAttempts
    timers,               \* number of pending reconnect setTimeout timers
    ev,                   \* this.ev: the callbacks the caller supplied
    optReconnect,         \* opts.reconnect ?? true, as given to the constructor
    sinceOpen,            \* reconnects scheduled since the last onopen (history)
    closedSocks,          \* the sockets the caller's close() was called on (history)
    callerClosed,         \* close() was called and the caller has not called
                          \* connect() since (history)
    last,                 \* the handler that ran last, with the state it found
    fx,                   \* what the last handler did: callbacks, sends, timers
    transport,            \* ChatInterface: "sse" or "ws", from the environment
    wsRef,                \* wsRef.current is a client (TRUE) or null (FALSE)
    deployToolsEnabled,   \* the deploy-tools toggle
    isLoading,            \* the loading state
    abortControllerRef,   \* abortControllerRef.current: "null", "live", "aborted"
    turn,                 \* the chat turn in progress: where handleSend is
                          \* suspended, and what it has done so far
    messages,             \* the transcript: the messages state of the component
    reviews,              \* the reviews completed so far (the source of the
                          \* review messages' ids)
    config,               \* ToolsClient: this.config
    call,                 \* ToolsClient: one call of fetchWithRetry
    logging,              \* Logger: the calls of sendToLoggingService, and the
                          \* requests the logging endpoint has received
    request,              \* one call of fetchWithTimeout or of apiFetch
    authStore,            \* useAuthStore: user, token, isAuthenticated
    chatStore,            \* useChatStore: messages, isLoading, error
    deploymentStore,      \* useDeploymentStore: requests, isDeploying
    calls,                \* the calls of the stores' async operations that
                          \* are suspended at an await (a bag)
    settled,              \* the call that settled last, and how (history)
    stream                \* chatStream: the response body, the reader's
                          \* position in it, and the locals of the read loop;
                          \* trace is the lines taken out of buf and cut tells
                          \* that a chunk ended inside a line (history)

wsVars == <<socks, ws, pingInterval, intervals, attempt, reconnect,
            maxReconnectAttempts, timers, ev, optReconnect, sinceOpen,
            closedSocks, callerClosed, last, fx>>

\* the history variables of the channel
hist == <<optReconnect, sinceOpen, closedSocks, callerClosed>>

chatVars == <<transport, wsRef, deployToolsEnabled, isLoading,
              abortControllerRef, turn, messages, reviews>>

retryVars == <<config, call>>

logVars == <<logging>>

streamVars == <<stream>>

requestVars == <<request>>

storeVars == <<authStore, chatStore, deploymentStore, calls, settled>>

vars == <<wsVars, chatVars, retryVars, logVars, streamVars, requestVars, storeVars>>

Min(a, b) == IF a < b THEN a ELSE b

Pow2(n) == IF n <= 0 THEN 1 ELSE 2 ^ n

\* one observable effect of a handler
Fx(k, n, s) == [k |-> k, n |-> n, s |-> s]

Kinds(seq) == {seq[i].k : i \in 1 .. Len(seq)}

Count(seq, k) == Cardinality({i \in 1 .. Len(seq) : seq[i].k = k})

Live(s) == s \in {"CONNECTING", "OPEN"}

\* the record of the handler that ran: its name, the socket and code or payload
\* it was about, and this.reconnect, this.attempt and the pending reconnect
\* timers as the handler found them
Ran(op, s, c, m) ==
    [op |-> op, sock |-> s, code |-> c, msg |-> m,
     reconnect |-> reconnect, attempt |-> attempt, timers |-> timers,
     sinceOpen |-> sinceOpen, nsocks |-> Len(socks),
     wsState |-> IF ws = 0 THEN "null" ELSE socks[ws], pc |-> turn.pc]

\* this.ev.<name>?.(...): the callback runs when the caller supplied it
Callback(name, n, s) == IF name \in ev THEN <<Fx(name, n, s)>> ELSE <<>>

(***************************************************************************)
(* ChatWSClient                                                            *)
(***************************************************************************)

\* constructor: no socket, no timers; the options come from the caller
WSInit(reconnectOpts, maxOpts) ==
    /\ socks = <<>>
    /\ ws = 0
    /\ pingInterval = 0
    /\ intervals = {}
    /\ attempt = 0
    /\ optReconnect \in reconnectOpts
    /\ reconnect = optReconnect
    /\ maxReconnectAttempts \in maxOpts
    /\ timers = 0
    /\ ev = EventNames
    /\ sinceOpen = 0
    /\ closedSocks = {}
    /\ callerClosed = FALSE
    /\ last = [op |-> "new", sock |-> 0, code |-> 0, msg |-> "",
               reconnect |-> reconnect, attempt |-> 0, timers |-> 0,
               sinceOpen |-> 0, nsocks |-> 0, wsState |-> "null", pc |-> "idle"]
    /\ fx = <<>>

\* connect() with a guard that forgets the CONNECTING state
ConnectReturnsEarlyOpenOnly == ws # 0 /\ socks[ws] = "OPEN"

\* connect(), line 40: return when the current socket is OPEN or CONNECTING
ConnectReturnsEarly == ws # 0 /\ Live(socks[ws])

\* stopHeartbeat(): clearInterval(this.pingInterval) when it is set
StoppedIntervals == IF pingInterval # 0 THEN intervals \ {pingInterval} ELSE intervals

\* the body of connect(): the early return, or new WebSocket(...) into this.ws
ConnectBody(pre) ==
    IF ConnectReturnsEarly
    THEN /\ UNCHANGED <<socks, ws>>
         /\ fx' = pre
    ELSE /\ Len(socks) < MaxSockets
         /\ socks' = Append(socks, "CONNECTING")
         /\ ws' = Len(socks) + 1
         /\ fx' = pre \o <<Fx("new", Len(socks) + 1, "")>>

\* the caller calls connect()
Connect ==
    /\ Len(socks) < MaxCallerSockets
    /\ ConnectBody(<<>>)
    /\ callerClosed' = FALSE
    /\ last' = Ran("connect", 0, 0, "")
    /\ UNCHANGED <<pingInterval, intervals, attempt, reconnect,
                   maxReconnectAttempts, timers, ev, optReconnect, sinceOpen,
                   closedSocks>>

\* a reconnect timer expires: () => this.connect()
TimerFire ==
    /\ timers > 0
    /\ timers' = timers - 1
    /\ ConnectBody(<<>>)
    /\ last' = Ran("timer", 0, 0, "")
    /\ UNCHANGED <<pingInterval, intervals, attempt, reconnect,
                   maxReconnectAttempts, ev, optReconnect, sinceOpen,
                   closedSocks, callerClosed>>

\* onopen that leaves this.attempt as it was
AttemptOnOpenKept == attempt

\* onopen, line 44: the value this.attempt is given
AttemptOnOpen == 0

\* ws.onopen of socket s: startHeartbeat(), attempt = 0, onOpen()
SockOpen(s) ==
    /\ socks[s] = "CONNECTING"
    /\ socks' = [socks EXCEPT ![s] = "OPEN"]
    /\ intervals' = StoppedIntervals \cup {s}
    /\ pingInterval' = s
    /\ attempt' = AttemptOnOpen
    /\ fx' = Callback("onOpen", 0, "")
    /\ sinceOpen' = 0
    /\ last' = Ran("onopen", s, 0, "")
    /\ UNCHANGED <<ws, reconnect, maxReconnectAttempts, timers, ev, optReconnect,
                   closedSocks, callerClosed>>

\* onclose with the budget test off by one
SchedulesReconnectOffByOne(code) == reconnect /\ attempt <= maxReconnectAttempts

\* lines 57-58 of onclose: the two early returns before a reconnect is scheduled
SchedulesReconnect(code) == reconnect /\ attempt < maxReconnectAttempts

\* the backoff without its cap
BackoffUncapped(a, j) == BackoffBaseMs * Pow2(a - 1) + j

\* line 60: the backoff of the reconnect numbered a, with jitter j
Backoff(a, j) == Min(BackoffBaseMs * Pow2(a - 1), BackoffCapMs) + j

\* the close codes socket s may report: a handshake that fails reports 1006
CloseCodes(s) == IF socks[s] = "CONNECTING" THEN {1006} ELSE Codes

\* ws.onclose of socket s with e.code = code
SockClose(s, code, j) ==
    /\ socks[s] \in {"CONNECTING", "OPEN", "CLOSING"}
    /\ code \in CloseCodes(s)
    /\ socks' = [socks EXCEPT ![s] = "CLOSED"]
    /\ intervals' = StoppedIntervals
    /\ pingInterval' = 0
    /\ IF SchedulesReconnect(code)
       THEN /\ attempt' = attempt + 1
            /\ timers' = timers + 1
            /\ sinceOpen' = sinceOpen + 1
            /\ fx' = Callback("onClose", code, "")
                        \o <<Fx("setTimeout", Backoff(attempt + 1, j), "")>>
       ELSE /\ j = 0
            /\ UNCHANGED <<attempt, timers, sinceOpen>>
            /\ fx' = Callback("onClose", code, "")
    /\ last' = Ran("onclose", s, code, "")
    /\ UNCHANGED <<ws, reconnect, maxReconnectAttempts, ev, optReconnect,
                   closedSocks, callerClosed>>

\* the closing handshake of socket s starts at the server's request: the
\* browser sets readyState to CLOSING before the close event is delivered
SockClosing(s) ==
    /\ socks[s] = "OPEN"
    /\ socks' = [socks EXCEPT ![s] = "CLOSING"]
    /\ fx' = <<>>
    /\ last' = Ran("closing", s, 0, "")
    /\ UNCHANGED <<ws, pingInterval, intervals, attempt, reconnect,
                   maxReconnectAttempts, timers, ev, hist>>

\* ws.onerror of socket s: onError("ws_error")
SockError(s) ==
    /\ Live(socks[s])
    /\ fx' = Callback("onError", 0, "ws_error")
    /\ last' = Ran("onerror", s, 0, "")
    /\ UNCHANGED <<socks, ws, pingInterval, intervals, attempt, reconnect,
                   maxReconnectAttempts, timers, ev, hist>>

\* what ws.close() does to a socket's readyState
AfterWsClose(st) == IF Live(st) THEN "CLOSING" ELSE st

\* close() that leaves this.reconnect as it was
ReconnectAfterCloseKept == reconnect

\* close(), line 76: the value this.reconnect is given
ReconnectAfterClose == FALSE

\* the caller calls close(): stopHeartbeat, reconnect = false, ws?.close(), ws = null
Close ==
    /\ intervals' = StoppedIntervals
    /\ pingInterval' = 0
    /\ reconnect' = ReconnectAfterClose
    /\ socks' = IF ws # 0 THEN [socks EXCEPT ![ws] = AfterWsClose(socks[ws])] ELSE socks
    /\ ws' = 0
    /\ fx' = IF ws # 0 THEN <<Fx("wsClose", ws, "")>> ELSE <<>>
    /\ closedSocks' = IF ws # 0 THEN closedSocks \cup {ws} ELSE closedSocks
    /\ callerClosed' = TRUE
    /\ last' = Ran("close", ws, 1000, "")
    /\ UNCHANGED <<attempt, maxReconnectAttempts, timers, ev, optReconnect, sinceOpen>>

\* the frames a server may send, named by their content:
\*   delta   {"type":"delta","data":"x"}     done   {"type":"done"}
\*   error   {"type":"error","message":"m"}  pong   {"type":"pong"}
\*   notype  {"data":"x"}                    garbage  text that is not JSON
WsPayloads == {"delta", "done", "error", "pong", "notype", "garbage"}

Undefined == "undefined"

\* safeParse(evt.data): the parsed object, or null for text that is not JSON
SafeParse(p) ==
    CASE p = "delta" -> [null |-> FALSE, type |-> "delta", data |-> "x", message |-> Undefined]
      [] p = "done" -> [null |-> FALSE, type |-> "done", data |-> Undefined, message |-> Undefined]
      [] p = "error" -> [null |-> FALSE, type |-> "error", data |-> Undefined, message |-> "m"]
      [] p = "pong" -> [null |-> FALSE, type |-> "pong", data |-> Undefined, message |-> Undefined]
      [] p = "notype" -> [null |-> FALSE, type |-> Undefined, data |-> "x", message |-> Undefined]
      [] OTHER -> [null |-> TRUE, type |-> Undefined, data |-> Undefined, message |-> Undefined]

\* msg?.type ?? "delta"
MsgType(msg) == IF msg.null \/ msg.type = Undefined THEN "delta" ELSE msg.type

\* String(x ?? dflt) of an optional field
OrElse(x, dflt) == IF x = Undefined THEN dflt ELSE x

\* lines 48-52 of onmessage: the callback the payload is routed to
OnMessageFx(p) ==
    LET msg == SafeParse(p)
        t == MsgType(msg)
    IN  CASE t = "delta" -> Callback("onDelta", 0, OrElse(msg.data, ""))
          [] t = "done" -> Callback("onDone", 0, "")
          [] t = "error" -> Callback("onError", 0, OrElse(msg.message, "error"))
          [] OTHER -> <<>>

\* ws.onmessage of socket s with evt.data = p
SockMessage(s, p) ==
    /\ socks[s] = "OPEN"
    /\ fx' = OnMessageFx(p)
    /\ last' = Ran("onmessage", s, 0, p)
    /\ UNCHANGED <<socks, ws, pingInterval, intervals, attempt, reconnect,
                   maxReconnectAttempts, timers, ev, hist>>

SendChatThrowsWithoutSocket == ws = 0

\* sendChat, line 69: throw ws_not_open unless the current socket is OPEN
SendChatThrows == ws = 0 \/ socks[ws] # "OPEN"

\* the effects of sendChat(init)
SendChatFx ==
    IF SendChatThrows THEN <<Fx("throw", 0, "ws_not_open")>> ELSE <<Fx("send", ws, "chat")>>

\* the caller calls sendChat(init)
SendChat ==
    /\ fx' = SendChatFx
    /\ last' = Ran("sendChat", ws, 0, "")
    /\ UNCHANGED <<socks, ws, pingInterval, intervals, attempt, reconnect,
                   maxReconnectAttempts, timers, ev, hist>>

\* the heartbeat interval i ticks: this.ws?.send(ping); a send on a socket
\* that is CONNECTING throws and is caught, on a closed socket it is dropped
HeartbeatTick(i) ==
    /\ i \in intervals
    /\ fx' = IF ws # 0 /\ socks[ws] = "OPEN" THEN <<Fx("send", ws, "ping")>> ELSE <<>>
    /\ last' = Ran("tick", i, 0, "")
    /\ UNCHANGED <<socks, ws, pingInterval, intervals, attempt, reconnect,
                   maxReconnectAttempts, timers, ev, hist>>

(***************************************************************************)
(* ChatInterface.handleSend: one chat turn.  handleSend runs to its next   *)
(* await in one step; turn.pc names the await it is suspended at:          *)
(*   "ws"        the Promise around sendChat, lines 104-126                *)
(*   "fallback"  chatStream in the .catch handler, line 128                *)
(*   "sse"       chatStream, line 144                                      *)
(*   "chat"      call_chat, line 159                                       *)
(***************************************************************************)

\* no turn yet
NoTurn ==
    [n |-> 0, pc |-> "idle", sock |-> 0, sendChats |-> 0, wsThrew |-> FALSE,
     streams |-> 0, wsDelta |-> FALSE, deltas |-> 0, settles |-> 0,
     outcome |-> "none"]

\* the component before it is mounted with a WebSocket client
ChatIdle ==
    /\ transport = "sse"
    /\ wsRef = FALSE
    /\ deployToolsEnabled = FALSE
    /\ isLoading = FALSE
    /\ abortControllerRef = "null"
    /\ turn = NoTurn
    /\ messages = <<>>
    /\ reviews = 0

\* the component after its first render and effects (lines 32-49, 72-81): with
\* transport "ws" a client with the default options and no callbacks exists
\* and connect() has been called on it
ChatInit ==
    /\ transport \in {"sse", "ws"}
    /\ wsRef = (transport = "ws")
    /\ deployToolsEnabled \in BOOLEAN
    /\ isLoading = FALSE
    /\ abortControllerRef = "null"
    /\ turn = NoTurn
    /\ messages = <<>>
    /\ reviews = 0
    /\ socks = IF transport = "ws" THEN <<"CONNECTING">> ELSE <<>>
    /\ ws = IF transport = "ws" THEN 1 ELSE 0
    /\ pingInterval = 0
    /\ intervals = {}
    /\ attempt = 0
    /\ optReconnect = TRUE
    /\ reconnect = TRUE
    /\ maxReconnectAttempts = DefaultMaxReconnectAttempts
    /\ timers = 0
    /\ ev = {}
    /\ sinceOpen = 0
    /\ closedSocks = {}
    /\ callerClosed = FALSE
    /\ last = [op |-> "mount", sock |-> 0, code |-> 0, msg |-> "",
               reconnect |-> TRUE, attempt |-> 0, timers |-> 0,
               sinceOpen |-> 0, nsocks |-> 0, wsState |-> "null", pc |-> "idle"]
    /\ fx = IF transport = "ws" THEN <<Fx("new", 1, "")>> ELSE <<>>

\* a ChatMsg: crypto.randomUUID() gives the n-th message of a kind its own id
ChatMsg(kind, n, role, content) ==
    [id |-> <<kind, n>>, role |-> role, content |-> content]

\* lines 89 and 98-99: the user message and the empty assistant placeholder
\* of turn n
UserMessage(n) == ChatMsg("user", n, "user", <<"input">>)

AssistantMsg(n) == ChatMsg("assistant", n, "assistant", <<>>)

\* lines 138-140, 154-156 and 160-162:
\* prev.map((m) => (m.id === assistantId ? { ...m, content } : m))
WithContent(prev, id, content) ==
    [i \in 1 .. Len(prev) |->
        IF prev[i].id = id THEN [prev[i] EXCEPT !.content = content] ELSE prev[i]]

\* lines 132-134 and 148-150: the same with content: m.content + delta
WithDelta(prev, id, delta) ==
    [i \in 1 .. Len(prev) |->
        IF prev[i].id = id THEN [prev[i] EXCEPT !.content = Append(@, delta)]
        ELSE prev[i]]

\* line 165, the catch block: prev.slice(0, -1)
SliceLast(prev) == SubSeq(prev, 1, Len(prev) - 1)

\* line 86: a controller left in the ref is aborted
AbortedPrevious == IF abortControllerRef = "null" THEN "null" ELSE "aborted"

\* lines 88-100: a new turn, before the transport is chosen
NewTurn == [NoTurn EXCEPT !.n = turn.n + 1]

\* the .catch handler that retries sendChat instead of falling back
WsRejectedRetriesWs(t) == [t EXCEPT !.pc = "ws", !.sendChats = @ + 1]

\* lines 126-128: the Promise was rejected; the .catch handler calls chatStream
WsRejected(t) == [t EXCEPT !.pc = "fallback", !.streams = @ + 1]

\* lines 104-125 with sendChat as ws.ts defines it: sendChat(init) takes one
\* parameter, so the callbacks handleSend passes as a second argument are
\* dropped; the Promise is rejected when sendChat throws and is otherwise
\* left pending
WsAttempt(t) ==
    IF SendChatThrows
    THEN WsRejected([t EXCEPT !.sendChats = @ + 1, !.wsThrew = TRUE])
    ELSE [t EXCEPT !.sendChats = @ + 1, !.pc = "ws", !.sock = ws]

\* lines 84-159: handleSend up to its first await
HandleSend ==
    /\ ~isLoading
    /\ transport = "ws" => wsRef      \* the component is still mounted
    /\ turn.n < MaxTurns
    /\ isLoading' = TRUE
    /\ IF ~deployToolsEnabled
       THEN IF transport = "ws" /\ wsRef
            THEN /\ turn' = WsAttempt(NewTurn)
                 /\ fx' = SendChatFx
                 /\ abortControllerRef' =
                        IF SendChatThrows THEN "live" ELSE AbortedPrevious
            ELSE /\ turn' = [NewTurn EXCEPT !.pc = "sse", !.streams = 1]
                 /\ fx' = <<>>
                 /\ abortControllerRef' = "live"
       ELSE /\ turn' = [NewTurn EXCEPT !.pc = "chat"]
            /\ fx' = <<>>
            /\ abortControllerRef' = AbortedPrevious
    /\ messages' = messages \o <<UserMessage(turn.n + 1), AssistantMsg(turn.n + 1)>>
    /\ last' = Ran("handleSend", ws, 0, "")
    /\ UNCHANGED <<socks, ws, pingInterval, intervals, attempt, reconnect,
                   maxReconnectAttempts, timers, ev, hist,
                   transport, wsRef, deployToolsEnabled, reviews>>

\* lines 164-170: the catch block (when failed) and the finally block
Settled(t, failed) ==
    [t EXCEPT !.pc = "idle", !.settles = @ + 1,
              !.outcome = IF failed THEN "error" ELSE "done"]

\* lines 128-137, 144-153 and 159: fullContent, which is the deltas chatStream
\* passed one by one, or the reply of call_chat
Final(op, deltas) ==
    IF op = "chatReply" THEN <<"reply">> ELSE [i \in 1 .. deltas |-> "delta"]

\* the end of a turn: the awaited call returned or threw
Settle(op, failed) ==
    /\ turn' = Settled(turn, failed)
    /\ isLoading' = FALSE
    /\ abortControllerRef' = "null"
    /\ messages' = IF failed THEN SliceLast(messages)
                   ELSE WithContent(messages, <<"assistant", turn.n>>,
                                    Final(op, turn.deltas))
    /\ fx' = <<>>
    /\ last' = Ran(op, 0, 0, "")
    /\ UNCHANGED <<socks, ws, pingInterval, intervals, attempt, reconnect,
                   maxReconnectAttempts, timers, ev, hist,
                   transport, wsRef, deployToolsEnabled, reviews>>

\* chatStream passes a delta to onDelta (stream.ts, lines 44-50)
StreamDelta ==
    /\ turn.pc \in {"sse", "fallback"}
    /\ turn.deltas < MaxDeltas
    /\ turn' = [turn EXCEPT !.deltas = @ + 1]
    /\ messages' = WithDelta(messages, <<"assistant", turn.n>>, "delta")
    /\ fx' = <<>>
    /\ last' = Ran("streamDelta", 0, 0, "")
    /\ UNCHANGED <<socks, ws, pingInterval, intervals, attempt, reconnect,
                   maxReconnectAttempts, timers, ev, hist,
                   transport, wsRef, deployToolsEnabled, isLoading,
                   abortControllerRef, reviews>>

\* chatStream returns the full text
StreamEnd == turn.pc \in {"sse", "fallback"} /\ Settle("streamEnd", FALSE)

\* chatStream throws: fetch rejected, the response was not ok, or a read failed
StreamFail == turn.pc \in {"sse", "fallback"} /\ Settle("streamFail", TRUE)

\* call_chat returns the reply
ChatReply == turn.pc = "chat" /\ Settle("chatReply", FALSE)

\* call_chat throws
ChatFail == turn.pc = "chat" /\ Settle("chatFail", TRUE)

\* the user toggles the deploy tools (DeployButton, line 209)
ToggleDeployTools ==
    /\ deployToolsEnabled' = ~deployToolsEnabled
    /\ fx' = <<>>
    /\ last' = Ran("toggle", 0, 0, "")
    /\ UNCHANGED <<socks, ws, pingInterval, intervals, attempt, reconnect,
                   maxReconnectAttempts, timers, ev, hist,
                   transport, wsRef, isLoading, abortControllerRef, turn,
                   messages, reviews>>

\* lines 188-191: a review completes (ReviewButton's onComplete) and its
\* message is appended
HandleReviewComplete ==
    /\ reviews < MaxReviews
    /\ reviews' = reviews + 1
    /\ messages' = Append(messages, ChatMsg("review", reviews + 1, "assistant", <<"Review">>))
    /\ fx' = <<>>
    /\ last' = Ran("reviewComplete", 0, 0, "")
    /\ UNCHANGED <<socks, ws, pingInterval, intervals, attempt, reconnect,
                   maxReconnectAttempts, timers, ev, hist,
                   transport, wsRef, deployToolsEnabled, isLoading,
                   abortControllerRef, turn>>

\* the component unmounts (lines 77-80): wsRef.current?.close(), then null
Unmount ==
    /\ wsRef
    /\ Close
    /\ wsRef' = FALSE
    /\ UNCHANGED <<transport, deployToolsEnabled, isLoading, abortControllerRef, turn,
                   messages, reviews>>

\* a frame arrives on the client's socket; the turn awaiting sendChat's
\* Promise has seen a delta when one arrives on the socket its frame went to
\* (history)
ChatSockMessage(s, p) ==
    /\ SockMessage(s, p)
    /\ turn' = IF turn.pc = "ws" /\ turn.sock = s /\ MsgType(SafeParse(p)) = "delta"
               THEN [turn EXCEPT !.wsDelta = TRUE]
               ELSE turn
    /\ UNCHANGED <<transport, wsRef, deployToolsEnabled, isLoading, abortControllerRef,
                   messages, reviews>>

(***************************************************************************)
(* ToolsClient.fetchWithRetry (lib/toolsClient.ts, lines 35-64).  One call *)
(* of it is followed from attempt to attempt; call.pc names where it is:   *)
(*   "fetching"  awaiting fetch, line 42                                   *)
(*   "sleeping"  awaiting the backoff timer, lines 46, 53 and 58           *)
(*   "returned", "thrown"  the call has ended                              *)
(***************************************************************************)

\* the response statuses the server answers with
Statuses == {200, 204, 400, 401, 404, 408, 429, 500, 501, 502, 503, 504}

\* Retry-After values of a response, in seconds; 0 for no header
RetryAfters == {0, 5}

\* response.ok
Ok(status) == status >= 200 /\ status <= 299

\* constructor, lines 14-23: retries is 1 unless the caller configures it
RetryInit(retriesOpts) ==
    /\ config \in [retries : retriesOpts]
    /\ call = [pc |-> "idle", attempt |-> 0, maxRetries |-> 0,
               inflight |-> {}, deadlines |-> {}, fetches |-> 0,
               log |-> <<>>, sleeps |-> <<>>, lastError |-> "none",
               result |-> 0, signal |-> "none", afterAbort |-> 0,
               retryAfter |-> 0]

\* line 37: this.config.retries || 1
MaxRetriesOf(retries) == IF retries = 0 THEN 1 ELSE retries

\* line 42: the signal fetch is given, { ...options, signal: controller.signal }:
\* the attempt's own controller, whatever options.signal was
FetchSignal(c) == "controller"

\* lines 40-42: one loop iteration up to its await: a controller, its deadline
\* timer, and the fetch
StartAttempt(c, a) ==
    [c EXCEPT !.pc = "fetching", !.attempt = a,
              !.inflight = @ \cup {a}, !.deadlines = @ \cup {a},
              !.fetches = @ + 1,
              !.afterAbort = IF c.signal = "aborted" THEN @ + 1 ELSE @]

\* a backoff that does not grow
RetryDelayFlat(a) == RetryBaseMs

\* lines 46, 53, 58: the backoff slept after attempt a
RetryDelay(a) == RetryBaseMs * Pow2(a)

\* the call sleeps before its next attempt
Sleep(c) == [c EXCEPT !.pc = "sleeping", !.sleeps = Append(@, RetryDelay(c.attempt))]

\* line 44: the response is retried
RetriesResponse(c, status) == ~Ok(status) /\ status >= 500 /\ c.attempt < c.maxRetries

\* lines 43-49: fetch resolved with a response
OnResponse(c, status) ==
    LET d == [c EXCEPT !.inflight = @ \ {c.attempt},
                       !.deadlines = @ \ {c.attempt},
                       !.log = Append(@, [kind |-> "http", status |-> status])]
    IN  IF RetriesResponse(c, status)
        THEN Sleep(d)
        ELSE [d EXCEPT !.pc = "returned", !.result = status]

\* lines 50-63: fetch rejected with the error err; after the last attempt the
\* loop ends and lastError is thrown
OnReject(c, err) ==
    LET d == [c EXCEPT !.inflight = @ \ {c.attempt},
                       !.lastError = err,
                       !.log = Append(@, [kind |-> err, status |-> 0])]
    IN  IF c.attempt < c.maxRetries
        THEN Sleep(d)
        ELSE [d EXCEPT !.pc = "thrown"]

\* the caller calls fetchWithRetry(url, options); options.signal is absent
\* ("none"), a live signal of the caller, or one already aborted
CallFetchWithRetry(sig) ==
    /\ call.pc = "idle"
    /\ call' = StartAttempt([call EXCEPT !.maxRetries = MaxRetriesOf(config.retries),
                                         !.signal = sig], 0)
    /\ UNCHANGED config

\* fetch resolves with a response of the given status and Retry-After header
\* (in seconds, 0 for no header); the code never reads the header
FetchResponds(status, ra) ==
    /\ call.pc = "fetching"
    /\ call' = OnResponse([call EXCEPT !.retryAfter = ra], status)
    /\ UNCHANGED config

\* fetch rejects: the network failed
FetchRejects ==
    /\ call.pc = "fetching"
    /\ call' = OnReject(call, "TypeError")
    /\ UNCHANGED config

\* the deadline timer of attempt a fires: controller.abort(); the fetch of
\* that attempt, when still in flight, rejects with an AbortError
DeadlineFires(a) ==
    /\ a \in call.deadlines
    /\ call' = IF a \in call.inflight
               THEN OnReject([call EXCEPT !.deadlines = @ \ {a}], "AbortError")
               ELSE [call EXCEPT !.deadlines = @ \ {a}]
    /\ UNCHANGED config

\* the backoff timer fires: the loop goes on with attempt + 1
SleepDone ==
    /\ call.pc = "sleeping"
    /\ call' = StartAttempt(call, call.attempt + 1)
    /\ UNCHANGED config

\* the caller aborts the signal it passed in options; a fetch that was given
\* this signal rejects with an AbortError
CallerAbort ==
    /\ call.signal = "live"
    /\ call.pc \in {"fetching", "sleeping"}
    /\ call' = IF call.pc = "fetching" /\ FetchSignal(call) = "live"
               THEN [OnReject([call EXCEPT !.signal = "aborted"], "AbortError")
                        EXCEPT !.pc = "thrown"]
               ELSE [call EXCEPT !.signal = "aborted"]
    /\ UNCHANGED config

\* runTool, lines 72-86, once fetchWithRetry has settled: a response that is
\* not ok is thrown as an Error, the body of an ok response is parsed (a 204
\* has no body to parse), and whatever fetchWithRetry threw is thrown again
RunTool(c) ==
    IF c.pc = "thrown" THEN [state |-> "rejected", error |-> c.lastError, status |-> 0]
    ELSE IF c.pc # "returned" THEN [state |-> "pending", error |-> "none", status |-> 0]
    ELSE IF ~Ok(c.result) THEN [state |-> "rejected", error |-> "Error", status |-> c.result]
    ELSE IF c.result = 204 THEN [state |-> "rejected", error |-> "SyntaxError", status |-> 0]
    ELSE [state |-> "resolved", error |-> "none", status |-> c.result]

(***************************************************************************)
(* fetchWithTimeout and apiFetch: one request. A message is named by the   *)
(* template or the body field it is made from.                             *)
(***************************************************************************)

\* the statuses a response to the request may have
RequestStatuses == {200, 204, 404, 500}

\* the body of a response that is not ok: JSON with a string detail, with a
\* string message, with both, JSON without either, JSON null, or no JSON
BodyKinds == {"detail", "message", "both", "object", "null", "text"}

NoError == [name |-> "none", message |-> "", status |-> 0, cause |-> "none"]

\* new ApiError(message, cause, status); status 0 stands for undefined
ApiError(message, cause, status) ==
    [name |-> "ApiError", message |-> message, status |-> status, cause |-> cause]

\* no request is being made
RequestIdle ==
    request = [fn |-> "none", pc |-> "idle", timer |-> FALSE, status |-> 0,
               body |-> "none", detail |-> "", caught |-> "none",
               error |-> NoError, made |-> 0, abortedAt |-> "none"]

\* fetchWithTimeout, lines 19-22: the controller, the deadline timer, the fetch
CallFetchWithTimeout ==
    /\ request.pc = "idle"
    /\ request' = [request EXCEPT !.fn = "fetchWithTimeout", !.pc = "fetching",
                                  !.timer = TRUE]

\* apiFetch, lines 137-143: the fetch, with no deadline
CallApiFetch ==
    /\ request.pc = "idle"
    /\ request' = [request EXCEPT !.fn = "apiFetch", !.pc = "fetching"]

\* fetchWithTimeout line 24, apiFetch line 145: the message before the body
\* is read
DefaultMessage(fn) ==
    IF fn = "fetchWithTimeout" THEN "<context> failed <status>"
    ELSE "<status> <statusText>"

\* fetchWithTimeout lines 26-31, apiFetch lines 147-150: the message once the
\* body was read; message is assigned after detail; a body that is not JSON,
\* and in apiFetch a null body, throws, and the catch keeps the message
BodyMessage(dflt, body) ==
    CASE body = "detail" -> "body.detail"
      [] body \in {"message", "both"} -> "body.message"
      [] OTHER -> dflt

RethrownNever(name) == FALSE

\* fetchWithTimeout line 36: err instanceof ApiError, the error is thrown on
Rethrown(name) == name = "ApiError"

WrappedAsNetwork(name) == ApiError("<context> error", name, 0)

\* fetchWithTimeout lines 37-40: the ApiError made for another error
Wrapped(name) ==
    IF name = "AbortError" THEN ApiError("<context> timed out", name, 0)
    ELSE ApiError("<context> error", name, 0)

\* fetchWithTimeout lines 35-43: err reaches the catch block, the finally
\* block clears the timer
Caught(r, err) ==
    [r EXCEPT !.pc = "thrown", !.caught = err.name, !.timer = FALSE,
              !.error = IF Rethrown(err.name) THEN err ELSE Wrapped(err.name),
              !.made = IF Rethrown(err.name) THEN @ ELSE @ + 1]

\* fetchWithTimeout line 32 and apiFetch line 151: the failure thrown for the
\* response that is not ok, with the message made so far
ThrowHttp(r, message) ==
    IF r.fn = "fetchWithTimeout"
    THEN Caught([r EXCEPT !.detail = message, !.made = @ + 1],
                ApiError(message, "none", r.status))
    ELSE [r EXCEPT !.pc = "thrown", !.detail = message,
                   !.error = [name |-> "Error", message |-> message,
                              status |-> 0, cause |-> "none"]]

\* the fetch resolves with a response: an ok response is returned (line 34,
\* finally clears the timer), the body of another one is read
RequestResponds(status) ==
    /\ request.pc = "fetching"
    /\ request' = IF Ok(status)
                  THEN [request EXCEPT !.pc = "returned", !.status = status,
                                       !.timer = FALSE]
                  ELSE [request EXCEPT !.pc = "body", !.status = status,
                                       !.detail = DefaultMessage(request.fn)]

\* res.clone().json() / res.json() settles for a body of the given kind
RequestBody(body) ==
    /\ request.pc = "body"
    /\ request' = ThrowHttp([request EXCEPT !.body = body],
                            BodyMessage(request.detail, body))

\* the fetch rejects: the network failed. apiFetch has no catch
RequestRejects ==
    /\ request.pc = "fetching"
    /\ request' = IF request.fn = "fetchWithTimeout"
                  THEN Caught(request, [NoError EXCEPT !.name = "TypeError"])
                  ELSE [request EXCEPT !.pc = "thrown",
                                       !.error = [NoError EXCEPT !.name = "TypeError"]]

\* the deadline timer fires, line 20: controller.abort(). A pending fetch
\* rejects with an AbortError; a pending read of the body rejects with it too,
\* and the catch of lines 29-31 swallows it
RequestDeadline ==
    /\ request.timer
    /\ LET r == [request EXCEPT !.timer = FALSE, !.abortedAt = request.pc]
       IN  request' = IF request.pc = "fetching"
                      THEN Caught(r, [NoError EXCEPT !.name = "AbortError"])
                      ELSE ThrowHttp(r, r.detail)

(***************************************************************************)
(* Logger (lib/logger.ts)                                                  *)
(***************************************************************************)

\* the entries a caller logs
LogEntries == {"info: hello", "error: failed"}

\* no call made, and the logging endpoint has received nothing
LogInit == logging = [calls |-> 0, entry |-> "none", requests |-> <<>>]

\* sendToLoggingService(logEntry), lines 34-36: the body is empty, the call
\* returns at once and no request is sent
SendToLoggingService(logEntry) ==
    /\ logging.calls < MaxLogCalls
    /\ logging' = [logging EXCEPT !.calls = @ + 1, !.entry = logEntry]

(***************************************************************************)
(* chatStream (lib/stream.ts), lines 25-54: the decoder of the response    *)
(* body. The body is a sequence of bytes, a text a sequence of characters; *)
(* an ASCII byte and its character are written alike.                      *)
(***************************************************************************)

LF == "\n"

Quote == "\""

\* the two bytes of U+00E9 in UTF-8, the character, and the replacement
\* character a decoder writes for a malformed sequence
LeadByte == "0xC3"

ContByte == "0xA9"

EAcute == "U+00E9"

Replacement == "U+FFFD"

\* line 37: "data:"
DataPrefix == <<"d", "a", "t", "a", ":">>

\* line 40: "[DONE]"
DoneToken == <<"[", "D", "O", "N", "E", "]">>

\* the opening of an object whose first key is data: {"data":
DataKey == <<"{", Quote, "d", "a", "t", "a", Quote, ":">>

\* a line "data: <rem>"
DataLine(rem) == DataPrefix \o <<" ">> \o rem

\* the lines a body is made of: a JSON string, an object with a data field
\* (no space after the prefix), a text that is not JSON and holds a two-byte
\* character, the terminator, a comment, an empty JSON string, an object with
\* an empty data field, an object without one, null, and an empty remainder
Lines ==
    { DataLine(<<Quote, "a", "b", Quote>>),
      DataPrefix \o DataKey \o <<Quote, "c", Quote, "}">>,
      DataLine(<<"h", LeadByte, ContByte>>),
      DataLine(DoneToken),
      <<":", "k">>,
      DataLine(<<Quote, Quote>>),
      DataLine(DataKey \o <<Quote, Quote, "}">>),
      DataLine(<<"{", Quote, "x", Quote, ":", "1", "}">>),
      DataLine(<<"n", "u", "l", "l">>),
      DataLine(<<>>) }

\* the bodies of at most n lines, each line ended by a line feed
RECURSIVE Bodies(_)
Bodies(n) ==
    IF n = 0 THEN {<<>>}
    ELSE LET shorter == Bodies(n - 1)
         IN  shorter \cup {b \o l \o <<LF>> : b \in shorter, l \in Lines}

\* s.startsWith(p), s.slice(n), and s.indexOf(c) counted from 1, 0 for none
StartsWith(s, p) == Len(s) >= Len(p) /\ SubSeq(s, 1, Len(p)) = p

Slice(s, n) == SubSeq(s, n + 1, Len(s))

IndexOf(s, c) ==
    IF \E i \in 1 .. Len(s) : s[i] = c
    THEN CHOOSE i \in 1 .. Len(s) : s[i] = c /\ \A j \in 1 .. i - 1 : s[j] # c
    ELSE 0

\* line 32, decoder.decode(value, { stream: true }) on the bytes carried over
\* followed by the chunk: whole characters are written, the lead byte of a
\* sequence the chunk cuts is carried over to the next call
RECURSIVE DecodeBytes(_)
DecodeBytes(bs) ==
    IF bs = <<>> THEN [text |-> <<>>, pend |-> <<>>]
    ELSE IF Head(bs) = LeadByte
    THEN IF Len(bs) = 1 THEN [text |-> <<>>, pend |-> bs]
         ELSE IF bs[2] = ContByte
         THEN LET r == DecodeBytes(Slice(bs, 2))
              IN  [r EXCEPT !.text = <<EAcute>> \o @]
         ELSE LET r == DecodeBytes(Tail(bs))
              IN  [r EXCEPT !.text = <<Replacement>> \o @]
    ELSE LET r == DecodeBytes(Tail(bs))
         IN  [r EXCEPT !.text = <<IF Head(bs) = ContByte THEN Replacement
                                  ELSE Head(bs)>> \o @]

\* JSON.parse skips white space around the value
RECURSIVE TrimSpaces(_)
TrimSpaces(t) ==
    IF t # <<>> /\ Head(t) = " " THEN TrimSpaces(Tail(t))
    ELSE IF t # <<>> /\ t[Len(t)] = " " THEN TrimSpaces(SubSeq(t, 1, Len(t) - 1))
    ELSE t

\* a string literal without escapes
IsStringLiteral(t) ==
    /\ Len(t) >= 2
    /\ t[1] = Quote /\ t[Len(t)] = Quote
    /\ \A i \in 2 .. Len(t) - 1 : t[i] \notin {Quote, "\\", LF}

Digits == {"0", "1", "2", "3", "4", "5", "6", "7", "8", "9"}

IsNumber(t) ==
    /\ Len(t) >= 1
    /\ \A i \in 1 .. Len(t) : t[i] \in Digits
    /\ Len(t) > 1 => t[1] # "0"

\* objects that have no data field
OtherObjects == { <<"{", "}">>, <<"{", Quote, "x", Quote, ":", "1", "}">> }

JsonValue(type, hasData, str) ==
    [ok |-> TRUE, type |-> type, hasData |-> hasData, str |-> str]

\* line 42, JSON.parse(data), for the values a body carries: a string, an
\* object whose only field is a string data, an object without data, a number,
\* null, true and false; any other text is a SyntaxError
ParseJSON(data) ==
    LET t == TrimSpaces(data)
        inner == SubSeq(t, Len(DataKey) + 1, Len(t) - 1)
    IN  IF IsStringLiteral(t)
        THEN JsonValue("string", FALSE, SubSeq(t, 2, Len(t) - 1))
        ELSE IF StartsWith(t, DataKey) /\ t[Len(t)] = "}" /\ IsStringLiteral(inner)
        THEN JsonValue("object", TRUE, SubSeq(inner, 2, Len(inner) - 1))
        ELSE IF t \in OtherObjects THEN JsonValue("object", FALSE, <<>>)
        ELSE IF IsNumber(t) THEN JsonValue("number", FALSE, <<>>)
        ELSE IF t = <<"n", "u", "l", "l">> THEN JsonValue("null", FALSE, <<>>)
        ELSE IF t \in { <<"t", "r", "u", "e">>, <<"f", "a", "l", "s", "e">> }
        THEN JsonValue("boolean", FALSE, <<>>)
        ELSE [ok |-> FALSE, type |-> "SyntaxError", hasData |-> FALSE, str |-> <<>>]

\* lines 38-39: the line without "data:" and without one leading space
Remainder(raw) ==
    LET data == Slice(raw, 5)
    IN  IF StartsWith(data, <<" ">>) THEN Slice(data, 1) ELSE data

FallbackDropsLine(data) == <<>>

\* lines 48-51, the catch block: the remainder itself is the delta
Fallback(data) == <<data>>

\* lines 37-51: the deltas one complete line gives, none or one. Reading
\* obj.data of null throws a TypeError, caught like a SyntaxError
LineDeltas(raw) ==
    IF ~StartsWith(raw, DataPrefix) THEN <<>>
    ELSE LET data == Remainder(raw)
             obj == ParseJSON(data)
             text == IF obj.type = "string" \/ obj.hasData THEN obj.str ELSE <<>>
         IN  IF data = <<>> \/ data = DoneToken THEN <<>>
             ELSE IF ~obj.ok \/ obj.type = "null" THEN Fallback(data)
             ELSE IF text # <<>> THEN <<text>>
             ELSE <<>>

EmitMergesDeltas(st, raw, out) ==
    [st EXCEPT !.full = IF out = <<>> THEN @ ELSE @ \o out[1],
               !.deltas = IF out = <<>> \/ @ = <<>> THEN @ \o out
                          ELSE [@ EXCEPT ![Len(@)] = @ \o out[1]],
               !.trace = Append(@, [raw |-> raw, out |-> out])]

\* lines 44-47 and 49-50: full += text; onDelta(text), for the line raw
Emit(st, raw, out) ==
    [st EXCEPT !.full = IF out = <<>> THEN @ ELSE @ \o out[1],
               !.deltas = @ \o out,
               !.trace = Append(@, [raw |-> raw, out |-> out])]

\* lines 34-52: the inner loop takes the complete lines out of buf
RECURSIVE Drain(_)
Drain(st) ==
    LET nl == IndexOf(st.buf, LF)
        raw == SubSeq(st.buf, 1, nl - 1)
    IN  IF nl = 0 THEN st
        ELSE Drain(Emit([st EXCEPT !.buf = Slice(@, nl)], raw, LineDeltas(raw)))

BufferedDropsCarry(buf, text) == text

\* line 32: buf += the decoded chunk
Buffered(buf, text) == buf \o text

\* lines 29-53, one iteration of the outer loop: the reader gives the next n
\* bytes of the body
Feed(st, n) ==
    LET value == SubSeq(st.body, st.pos + 1, st.pos + n)
        dec == DecodeBytes(st.pend \o value)
        after == Drain([st EXCEPT !.pos = @ + n, !.pend = dec.pend,
                                  !.buf = Buffered(@, dec.text)])
    IN  [after EXCEPT !.cut = @ \/ after.buf # <<>> \/ after.pend # <<>>]

\* lines 25-28: the reader, the decoder and the empty locals, for a body
Reading(body) ==
    [pc |-> "reading", body |-> body, pos |-> 0, pend |-> <<>>, buf |-> <<>>,
     full |-> <<>>, deltas |-> <<>>, trace |-> <<>>, cut |-> FALSE]

\* chatStream is not running
StreamIdle == stream = [Reading(<<>>) EXCEPT !.pc = "idle"]

\* a body whose last line came without its line feed
Unterminated(body) == SubSeq(body, 1, Len(body) - 1)

\* the bodies a response carries: lines, the last one with or without its
\* line feed
ResponseBodies ==
    Bodies(MaxLines) \cup {Unterminated(body) : body \in Bodies(MaxLines) \ {<<>>}}

\* chatStream has its response, with one of the bodies
StreamInit == stream \in {Reading(body) : body \in ResponseBodies}

\* line 30: reader.read() resolves with a chunk of n bytes
ReadChunk(n) ==
    /\ stream.pc = "reading"
    /\ n \in 1 .. Len(stream.body) - stream.pos
    /\ stream' = Feed(stream, n)

AtDoneFlushesBuffer(st) == [Emit(st, st.buf, LineDeltas(st.buf)) EXCEPT !.buf = <<>>]

\* lines 31 and 54: if (done) break, then return full; buf is not looked at
AtDone(st) == st

\* lines 30-31 and 54: reader.read() resolves with done, chatStream returns full
ReadDone ==
    /\ stream.pc = "reading"
    /\ stream.pos = Len(stream.body)
    /\ stream' = [AtDone(stream) EXCEPT !.pc = "returned"]

\* line 30: reader.read() rejects, and chatStream with it
ReadFails ==
    /\ stream.pc = "reading"
    /\ stream' = [stream EXCEPT !.pc = "thrown"]

(***************************************************************************)
(* The zustand stores (store/index.ts).  Every async operation runs to its *)
(* next await in one step.  The calls suspended at an await are the bag    *)
(* calls; a call's pc names its await:                                     *)
(*   "fetch"   fetch or apiFetch                                           *)
(*   "json"    response.json()                                             *)
(*   "logout"  refresh awaiting get().logout(), which awaits its fetch     *)
(* A call that returns or throws leaves the bag and is recorded in         *)
(* settled.                                                                *)
(***************************************************************************)

Started(op, id, pc) == [op |-> op, id |-> id, pc |-> pc]

NoSettled == [op |-> "none", id |-> 0, outcome |-> "none", failed |-> FALSE]

\* a call ended: outcome is "returned" or "thrown", failed tells whether its
\* server call failed
Returned(op, id, outcome, failed) ==
    [op |-> op, id |-> id, outcome |-> outcome, failed |-> failed]

\* another call may be started
Free == BagCardinality(calls) < MaxInFlight

\* a call is suspended at its await, a call resumes
Suspend(bag, c) == bag (+) SetToBag({c})

Resume(bag, c) == bag (-) SetToBag({c})

\* the calls of an operation that are suspended, and their number
InFlight(op) == {c \in BagToSet(calls) : c.op = op}

InFlightCount(op) == BagCardinality([c \in InFlight(op) |-> calls[c]])

\* lines 69-71: the initial state of the auth store
LoggedOut == [user |-> "null", token |-> "null", isAuthenticated |-> FALSE]

\* lines 127-130: persist stores token and user only, so a reload finds them
\* with isAuthenticated at its initial value
Rehydrated == [user |-> "user", token |-> "token", isAuthenticated |-> FALSE]

\* lines 87-91: login's set
LoggedIn == [user |-> "user", token |-> "token", isAuthenticated |-> TRUE]

\* lines 172-176, 241-243: the initial state of the chat store and of the
\* deployment store
ChatStoreInit == [messages |-> <<>>, isLoading |-> FALSE, error |-> "null"]

DeploymentStoreInit == [requests |-> <<>>, isDeploying |-> FALSE]

\* the stores of a page that makes no use of them
StoreIdle ==
    /\ authStore = LoggedOut
    /\ chatStore = ChatStoreInit
    /\ deploymentStore = DeploymentStoreInit
    /\ calls = EmptyBag
    /\ settled = NoSettled

\* the stores after the page has loaded, with or without a persisted session
StoreInit ==
    /\ authStore \in {LoggedOut, Rehydrated}
    /\ chatStore = ChatStoreInit
    /\ deploymentStore = DeploymentStoreInit
    /\ calls = EmptyBag
    /\ settled = NoSettled

\* lines 72-77: login(email, password) up to its fetch
CallLogin ==
    /\ Free
    /\ calls' = Suspend(calls, Started("login", 0, "fetch"))
    /\ UNCHANGED <<authStore, chatStore, deploymentStore, settled>>

\* lines 78-86: the login fetch settles; a response that is not ok, and a
\* rejection, make login throw
LoginResponds(c, ok) ==
    /\ BagIn(c, calls) /\ c = Started("login", 0, "fetch")
    /\ IF ok
       THEN /\ calls' = Suspend(Resume(calls, c), [c EXCEPT !.pc = "json"])
            /\ UNCHANGED settled
       ELSE /\ calls' = Resume(calls, c)
            /\ settled' = Returned("login", 0, "thrown", TRUE)
    /\ UNCHANGED <<authStore, chatStore, deploymentStore>>

\* lines 86-91: the body of the login response is read
LoginBody(c, parsed) ==
    /\ BagIn(c, calls) /\ c = Started("login", 0, "json")
    /\ calls' = Resume(calls, c)
    /\ authStore' = IF parsed THEN LoggedIn ELSE authStore
    /\ settled' = Returned("login", 0, IF parsed THEN "returned" ELSE "thrown", FALSE)
    /\ UNCHANGED <<chatStore, deploymentStore>>

\* lines 102-106: logout's finally block
LogoutFinally(auth) == LoggedOut

\* lines 93-101: logout() up to its fetch; without a token there is no await
\* and the finally block runs at once
CallLogout ==
    /\ Free
    /\ IF authStore.token = "null"
       THEN /\ authStore' = LogoutFinally(authStore)
            /\ settled' = Returned("logout", 0, "returned", FALSE)
            /\ UNCHANGED calls
       ELSE /\ calls' = Suspend(calls, Started("logout", 0, "fetch"))
            /\ UNCHANGED <<authStore, settled>>
    /\ UNCHANGED <<chatStore, deploymentStore>>

\* lines 96-107: the logout fetch resolves, with whatever status, or rejects
LogoutSettles(c, rejected) ==
    /\ BagIn(c, calls) /\ c = Started("logout", 0, "fetch")
    /\ calls' = Resume(calls, c)
    /\ authStore' = LogoutFinally(authStore)
    /\ settled' = Returned("logout", 0, IF rejected THEN "thrown" ELSE "returned", rejected)
    /\ UNCHANGED <<chatStore, deploymentStore>>

\* lines 109-115: refresh() up to its fetch; without a token it returns
CallRefresh ==
    /\ Free
    /\ IF authStore.token = "null"
       THEN /\ settled' = Returned("refresh", 0, "returned", FALSE)
            /\ UNCHANGED calls
       ELSE /\ calls' = Suspend(calls, Started("refresh", 0, "fetch"))
            /\ UNCHANGED settled
    /\ UNCHANGED <<authStore, chatStore, deploymentStore>>

\* lines 112-124: the refresh fetch settles with r: "ok", "notOk" or
\* "rejected".  A rejection makes refresh throw at line 112; a response that
\* is not ok calls logout(), which ends at once when the token is gone
RefreshResponds(c, r) ==
    /\ BagIn(c, calls) /\ c = Started("refresh", 0, "fetch")
    /\ CASE r = "ok" ->
              /\ calls' = Suspend(Resume(calls, c), [c EXCEPT !.pc = "json"])
              /\ UNCHANGED <<authStore, settled>>
         [] r = "rejected" ->
              /\ calls' = Resume(calls, c)
              /\ settled' = Returned("refresh", 0, "thrown", TRUE)
              /\ UNCHANGED authStore
         [] r = "notOk" /\ authStore.token = "null" ->
              /\ calls' = Resume(calls, c)
              /\ authStore' = LogoutFinally(authStore)
              /\ settled' = Returned("refresh", 0, "returned", TRUE)
         [] r = "notOk" /\ authStore.token # "null" ->
              /\ calls' = Suspend(Resume(calls, c), [c EXCEPT !.pc = "logout"])
              /\ UNCHANGED <<authStore, settled>>
    /\ UNCHANGED <<chatStore, deploymentStore>>

\* lines 117-121: the body of the refresh response is read
RefreshBody(c, parsed) ==
    /\ BagIn(c, calls) /\ c = Started("refresh", 0, "json")
    /\ calls' = Resume(calls, c)
    /\ authStore' = IF parsed
                    THEN [authStore EXCEPT !.token = "token", !.isAuthenticated = TRUE]
                    ELSE authStore
    /\ settled' = Returned("refresh", 0, IF parsed THEN "returned" ELSE "thrown", FALSE)
    /\ UNCHANGED <<chatStore, deploymentStore>>

\* lines 96-107 and 123: the fetch of the logout() that refresh awaits settles
RefreshLogoutSettles(c, rejected) ==
    /\ BagIn(c, calls) /\ c = Started("refresh", 0, "logout")
    /\ calls' = Resume(calls, c)
    /\ authStore' = LogoutFinally(authStore)
    /\ settled' = Returned("refresh", 0, IF rejected THEN "thrown" ELSE "returned", TRUE)
    /\ UNCHANGED <<chatStore, deploymentStore>>

\* lines 177-185: addMessage pushes a message; its role is kept
AddMessage(chat, role) == [chat EXCEPT !.messages = Append(@, role)]

\* lines 186-191: clearMessages()
ClearMessages ==
    /\ chatStore' = [chatStore EXCEPT !.messages = <<>>, !.error = "null"]
    /\ UNCHANGED <<authStore, deploymentStore, calls, settled>>

\* lines 202-222: sendMessage(content) up to its await of apiFetch; without a
\* token it throws at line 204
CallSendMessage ==
    /\ Free
    /\ Len(chatStore.messages) + InFlightCount("sendMessage") + 2 <= MaxMessages
    /\ IF authStore.token = "null"
       THEN /\ settled' = Returned("sendMessage", 0, "thrown", FALSE)
            /\ UNCHANGED <<chatStore, calls>>
       ELSE /\ chatStore' = AddMessage([chatStore EXCEPT !.isLoading = TRUE,
                                                         !.error = "null"], "user")
            /\ calls' = Suspend(calls, Started("sendMessage", 0, "fetch"))
            /\ UNCHANGED settled
    /\ UNCHANGED <<authStore, deploymentStore>>

\* lines 219-232: apiFetch returns the response (ok) or throws; the catch
\* block keeps the error's message and the finally block ends the loading
SendMessageSettles(c, ok) ==
    /\ BagIn(c, calls) /\ c = Started("sendMessage", 0, "fetch")
    /\ calls' = Resume(calls, c)
    /\ chatStore' = [(IF ok THEN AddMessage(chatStore, "assistant")
                            ELSE [chatStore EXCEPT !.error = "message"])
                       EXCEPT !.isLoading = FALSE]
    /\ settled' = Returned("sendMessage", 0, "returned", ~ok)
    /\ UNCHANGED <<authStore, deploymentStore>>

\* the ids the server gives to deployment requests
RequestIds == 1 .. MaxRequests

\* lines 157-167, toDeployment, for a request the server has just created
Created(id) == [id |-> id, status |-> "pending"]

\* lines 271-276, 283-288 and 299-304: the request with the id, if the list
\* has it, gets the status
WithStatus(requests, id, status) ==
    [i \in 1 .. Len(requests) |->
        IF requests[i].id = id THEN [requests[i] EXCEPT !.status = status]
        ELSE requests[i]]

AppliedBeforeReply(requests, id, status, ok) == WithStatus(requests, id, status)

\* the set that follows the await of apiFetch is reached only when apiFetch
\* has returned (ok); when it throws the operation is left at the await
Applied(requests, id, status, ok) ==
    IF ok THEN WithStatus(requests, id, status) ELSE requests

\* lines 255-258: createRequest(request) up to its await of apiFetch
CallCreateRequest ==
    /\ Free
    /\ Len(deploymentStore.requests) + InFlightCount("createRequest") < MaxRequests
    /\ IF authStore.token = "null"
       THEN /\ settled' = Returned("createRequest", 0, "thrown", FALSE)
            /\ UNCHANGED calls
       ELSE /\ calls' = Suspend(calls, Started("createRequest", 0, "fetch"))
            /\ UNCHANGED settled
    /\ UNCHANGED <<authStore, chatStore, deploymentStore>>

\* lines 258-264: apiFetch returns the created request, or throws
CreateRequestSettles(c, ok) ==
    /\ BagIn(c, calls) /\ c = Started("createRequest", 0, "fetch")
    /\ calls' = Resume(calls, c)
    /\ deploymentStore' =
          IF ok THEN [deploymentStore EXCEPT
                         !.requests = Append(@, Created(Len(@) + 1))]
          ELSE deploymentStore
    /\ settled' = Returned("createRequest", 0, IF ok THEN "returned" ELSE "thrown", ~ok)
    /\ UNCHANGED <<authStore, chatStore>>

\* lines 266-269 and 278-281: approveRequest(id) and rejectRequest(id) up to
\* their await of apiFetch
CallDecision(op, id) ==
    /\ Free
    /\ IF authStore.token = "null"
       THEN /\ settled' = Returned(op, id, "thrown", FALSE)
            /\ UNCHANGED calls
       ELSE /\ calls' = Suspend(calls, Started(op, id, "fetch"))
            /\ UNCHANGED settled
    /\ UNCHANGED <<authStore, chatStore, deploymentStore>>

\* lines 269-276 and 281-288: apiFetch returns or throws
DecisionSettles(c, op, status, ok) ==
    /\ BagIn(c, calls) /\ c.op = op /\ c.pc = "fetch"
    /\ calls' = Resume(calls, c)
    /\ deploymentStore' = [deploymentStore EXCEPT
                              !.requests = Applied(@, c.id, status, ok)]
    /\ settled' = Returned(op, c.id, IF ok THEN "returned" ELSE "thrown", ~ok)
    /\ UNCHANGED <<authStore, chatStore>>

CallApproveRequest(id) == CallDecision("approveRequest", id)

ApproveRequestSettles(c, ok) == DecisionSettles(c, "approveRequest", "approved", ok)

CallRejectRequest(id) == CallDecision("rejectRequest", id)

RejectRequestSettles(c, ok) == DecisionSettles(c, "rejectRequest", "rejected", ok)

\* lines 290-297: deployRequest(id) up to its await of apiFetch
CallDeployRequest(id) ==
    /\ Free
    /\ IF authStore.token = "null"
       THEN /\ settled' = Returned("deployRequest", id, "thrown", FALSE)
            /\ UNCHANGED <<calls, deploymentStore>>
       ELSE /\ calls' = Suspend(calls, Started("deployRequest", id, "fetch"))
            /\ deploymentStore' = [deploymentStore EXCEPT !.isDeploying = TRUE]
            /\ UNCHANGED settled
    /\ UNCHANGED <<authStore, chatStore>>

\* lines 297-309: apiFetch returns or throws; the finally block ends the
\* deploying
DeployRequestSettles(c, ok) ==
    /\ BagIn(c, calls) /\ c.op = "deployRequest" /\ c.pc = "fetch"
    /\ calls' = Resume(calls, c)
    /\ deploymentStore' = [deploymentStore EXCEPT
                              !.requests = Applied(@, c.id, "deployed", ok),
                              !.isDeploying = FALSE]
    /\ settled' = Returned("deployRequest", c.id,
                           IF ok THEN "returned" ELSE "thrown", ~ok)
    /\ UNCHANGED <<authStore, chatStore>>

(***************************************************************************)
(* The specifications: the channel driven by any caller, the chat          *)
(* component with its channel, the retrying client, the decoder, one       *)
(* request, the transcript, and the three stores.                          *)
(***************************************************************************)

\* a client and a ToolsClient constructed with no options
WSDefault == WSInit({TRUE}, {DefaultMaxReconnectAttempts})

RetryDefault == RetryInit({DefaultRetries})

Init ==
    /\ WSInit(BOOLEAN, ReconnectOpts) /\ ChatIdle /\ RetryDefault /\ LogInit
    /\ StreamIdle /\ RequestIdle /\ StoreIdle

\* a step of the channel alone, of the component and its channel, of the
\* retrying client alone
WsStep ==
    UNCHANGED <<chatVars, retryVars, logVars, streamVars, requestVars, storeVars>>

ChatStep ==
    UNCHANGED <<retryVars, logVars, streamVars, requestVars, storeVars>>

RetryStep ==
    UNCHANGED <<wsVars, chatVars, logVars, streamVars, requestVars, storeVars>>

LogStep ==
    UNCHANGED <<wsVars, chatVars, retryVars, streamVars, requestVars, storeVars>>

StreamStep ==
    UNCHANGED <<wsVars, chatVars, retryVars, logVars, requestVars, storeVars>>

RequestStep ==
    UNCHANGED <<wsVars, chatVars, retryVars, logVars, streamVars, storeVars>>

StoreStep ==
    UNCHANGED <<wsVars, chatVars, retryVars, logVars, streamVars, requestVars>>

Next ==
    \/ Connect /\ WsStep
    \/ TimerFire /\ WsStep
    \/ Close /\ WsStep
    \/ SendChat /\ WsStep
    \/ \E s \in 1 .. Len(socks) : SockOpen(s) /\ WsStep
    \/ \E s \in 1 .. Len(socks) : SockClosing(s) /\ WsStep
    \/ \E s \in 1 .. Len(socks) : SockError(s) /\ WsStep
    \/ \E s \in 1 .. Len(socks), p \in WsPayloads : SockMessage(s, p) /\ WsStep
    \/ \E i \in intervals : HeartbeatTick(i) /\ WsStep
    \/ \E s \in 1 .. Len(socks), code \in Codes, j \in Jitters :
            SockClose(s, code, j) /\ WsStep

Spec == Init /\ [][Next]_vars

InitChat ==
    /\ ChatInit /\ RetryDefault /\ LogInit /\ StreamIdle /\ RequestIdle
    /\ StoreIdle

NextChat ==
    \/ HandleSend /\ ChatStep
    \/ StreamDelta /\ ChatStep
    \/ StreamEnd /\ ChatStep
    \/ StreamFail /\ ChatStep
    \/ ChatReply /\ ChatStep
    \/ ChatFail /\ ChatStep
    \/ ToggleDeployTools /\ ChatStep
    \/ Unmount /\ ChatStep
    \/ \E s \in 1 .. Len(socks), p \in WsPayloads : ChatSockMessage(s, p) /\ ChatStep
    \/ TimerFire /\ WsStep
    \/ \E s \in 1 .. Len(socks) : SockOpen(s) /\ WsStep
    \/ \E s \in 1 .. Len(socks) : SockClosing(s) /\ WsStep
    \/ \E s \in 1 .. Len(socks) : SockError(s) /\ WsStep
    \/ \E i \in intervals : HeartbeatTick(i) /\ WsStep
    \/ \E s \in 1 .. Len(socks), code \in Codes, j \in Jitters :
            SockClose(s, code, j) /\ WsStep

SpecChat == InitChat /\ [][NextChat]_vars

\* the component and its transcript, with reviews completing at any time; no
\* socket event is delivered, so with transport "ws" the socket is still
\* CONNECTING and every turn falls back to chatStream
InitTranscript == InitChat

NextTranscript ==
    \/ HandleSend /\ ChatStep
    \/ StreamDelta /\ ChatStep
    \/ StreamEnd /\ ChatStep
    \/ StreamFail /\ ChatStep
    \/ ChatReply /\ ChatStep
    \/ ChatFail /\ ChatStep
    \/ ToggleDeployTools /\ ChatStep
    \/ HandleReviewComplete /\ ChatStep

SpecTranscript == InitTranscript /\ [][NextTranscript]_vars

\* the auth store driven by any caller
InitAuth ==
    /\ WSDefault /\ ChatIdle /\ RetryDefault /\ LogInit /\ StreamIdle
    /\ RequestIdle /\ StoreInit

NextAuth ==
    \/ CallLogin /\ StoreStep
    \/ CallLogout /\ StoreStep
    \/ CallRefresh /\ StoreStep
    \/ \E c \in BagToSet(calls), ok \in BOOLEAN : LoginResponds(c, ok) /\ StoreStep
    \/ \E c \in BagToSet(calls), parsed \in BOOLEAN : LoginBody(c, parsed) /\ StoreStep
    \/ \E c \in BagToSet(calls), rejected \in BOOLEAN : LogoutSettles(c, rejected) /\ StoreStep
    \/ \E c \in BagToSet(calls), r \in {"ok", "notOk", "rejected"} : RefreshResponds(c, r) /\ StoreStep
    \/ \E c \in BagToSet(calls), parsed \in BOOLEAN : RefreshBody(c, parsed) /\ StoreStep
    \/ \E c \in BagToSet(calls), rejected \in BOOLEAN : RefreshLogoutSettles(c, rejected) /\ StoreStep

SpecAuth == InitAuth /\ [][NextAuth]_vars

\* the chat store driven by any caller, who may also log out
InitChatStore == InitAuth

NextChatStore ==
    \/ CallSendMessage /\ StoreStep
    \/ ClearMessages /\ StoreStep
    \/ CallLogout /\ StoreStep
    \/ \E c \in BagToSet(calls), ok \in BOOLEAN : SendMessageSettles(c, ok) /\ StoreStep
    \/ \E c \in BagToSet(calls), rejected \in BOOLEAN : LogoutSettles(c, rejected) /\ StoreStep

SpecChatStore == InitChatStore /\ [][NextChatStore]_vars

\* the deployment store driven by any caller, who may also log out
InitDeployment == InitAuth

NextDeployment ==
    \/ CallCreateRequest /\ StoreStep
    \/ CallLogout /\ StoreStep
    \/ \E id \in RequestIds : CallApproveRequest(id) /\ StoreStep
    \/ \E id \in RequestIds : CallRejectRequest(id) /\ StoreStep
    \/ \E id \in RequestIds : CallDeployRequest(id) /\ StoreStep
    \/ \E c \in BagToSet(calls), ok \in BOOLEAN : CreateRequestSettles(c, ok) /\ StoreStep
    \/ \E c \in BagToSet(calls), ok \in BOOLEAN : ApproveRequestSettles(c, ok) /\ StoreStep
    \/ \E c \in BagToSet(calls), ok \in BOOLEAN : RejectRequestSettles(c, ok) /\ StoreStep
    \/ \E c \in BagToSet(calls), ok \in BOOLEAN : DeployRequestSettles(c, ok) /\ StoreStep
    \/ \E c \in BagToSet(calls), rejected \in BOOLEAN : LogoutSettles(c, rejected) /\ StoreStep

SpecDeployment == InitDeployment /\ [][NextDeployment]_vars

InitRetry ==
    /\ WSDefault /\ ChatIdle /\ RetryInit(0 .. MaxRetriesOpt) /\ LogInit
    /\ StreamIdle /\ RequestIdle /\ StoreIdle

NextRetry ==
    \/ \E sig \in {"none", "live", "aborted"} : CallFetchWithRetry(sig) /\ RetryStep
    \/ \E status \in Statuses, ra \in RetryAfters : FetchResponds(status, ra) /\ RetryStep
    \/ FetchRejects /\ RetryStep
    \/ \E a \in call.deadlines : DeadlineFires(a) /\ RetryStep
    \/ SleepDone /\ RetryStep
    \/ CallerAbort /\ RetryStep
    \/ \E logEntry \in LogEntries : SendToLoggingService(logEntry) /\ LogStep

SpecRetry == InitRetry /\ [][NextRetry]_vars

InitStream ==
    /\ WSDefault /\ ChatIdle /\ RetryDefault /\ LogInit /\ StreamInit
    /\ RequestIdle /\ StoreIdle

NextStream ==
    \/ \E n \in 1 .. Len(stream.body) : ReadChunk(n) /\ StreamStep
    \/ ReadDone /\ StreamStep
    \/ ReadFails /\ StreamStep

SpecStream == InitStream /\ [][NextStream]_vars

\* a timed request, and a call of a ToolsClient constructed with no options
InitTimed ==
    /\ WSDefault /\ ChatIdle /\ RetryDefault /\ LogInit /\ StreamIdle
    /\ RequestIdle /\ StoreIdle

NextTimed ==
    \/ CallFetchWithTimeout /\ RequestStep
    \/ CallApiFetch /\ RequestStep
    \/ \E status \in RequestStatuses : RequestResponds(status) /\ RequestStep
    \/ \E body \in BodyKinds : RequestBody(body) /\ RequestStep
    \/ RequestRejects /\ RequestStep
    \/ RequestDeadline /\ RequestStep
    \/ CallFetchWithRetry("none") /\ RetryStep
    \/ \E status \in RequestStatuses : FetchResponds(status, 0) /\ RetryStep
    \/ FetchRejects /\ RetryStep
    \/ \E a \in call.deadlines : DeadlineFires(a) /\ RetryStep
    \/ SleepDone /\ RetryStep

SpecTimed == InitTimed /\ [][NextTimed]_vars

(***************************************************************************)
(* Properties of ChatWSClient, checked under Spec.                         *)
(***************************************************************************)

\* the last handler was onclose with a code in set C
Closed(C) == last.op = "onclose" /\ last.code \in C

\* the last handler scheduled n reconnect timers
Scheduled(n) == Count(fx, "setTimeout") = n /\ timers = last.timers + n

\* C1: a close event with a normal code (1000, 1001), delivered while reconnect
\* is enabled and attempts remain, schedules no reconnect.
C1_NormalCloseNoReconnect ==
    (Closed(NormalCodes) /\ last.reconnect /\ last.attempt < maxReconnectAttempts)
        => Scheduled(0)

\* C2: with reconnect enabled, a close with code 1006 schedules exactly one
\* delayed connect() while fewer than maxReconnectAttempts reconnects have been
\* scheduled since the last open, and none once that many have been; the
\* attempt counter never exceeds maxReconnectAttempts.
C2_AbnormalCloseBudget ==
    /\ attempt <= maxReconnectAttempts
    /\ (Closed({1006}) /\ last.reconnect) =>
            IF last.sinceOpen < maxReconnectAttempts THEN Scheduled(1) ELSE Scheduled(0)

\* a 1006 close that found the budget used up, and scheduled nothing
C2_Witness ==
    /\ Closed({1006}) /\ last.reconnect
    /\ maxReconnectAttempts > 0
    /\ last.sinceOpen = maxReconnectAttempts
    /\ Scheduled(0)

\* C3: a close event of a socket the caller's close() was called on schedules
\* no reconnect, whatever its code.
C3_NoReconnectAfterClose ==
    (last.op = "onclose" /\ last.sock \in closedSocks) => Scheduled(0)

\* close() on a client constructed with reconnect on and attempts left, then an
\* abnormal close event of that socket
C3_Witness ==
    /\ Closed({1006}) /\ last.sock \in closedSocks
    /\ optReconnect
    /\ last.attempt < maxReconnectAttempts
    /\ Scheduled(0)

\* C4: a close with code 1008 that the server initiated schedules no reconnect,
\* and the caller gets exactly one notification of it that is not the ordinary
\* onClose.
C4_PolicyViolationFatalOnce ==
    (Closed({1008}) /\ last.sock \notin closedSocks) =>
        /\ Scheduled(0)
        /\ Cardinality({i \in 1 .. Len(fx) : fx[i].k \in EventNames \ {"onClose"}}) = 1

\* C5: at most one socket of the client is CONNECTING or OPEN, and a reconnect
\* timer that finds the current socket CONNECTING or OPEN creates no socket.
C5_OneLiveSocket ==
    /\ Cardinality({i \in 1 .. Len(socks) : Live(socks[i])}) <= 1
    /\ (last.op = "timer" /\ Live(last.wsState)) =>
            Count(fx, "new") = 0 /\ Len(socks) = last.nsocks

\* a reconnect timer fired while the socket a caller's connect() made was open
C5_Witness ==
    /\ last.op = "timer" /\ last.wsState = "OPEN"
    /\ Count(fx, "new") = 0
    /\ Len(socks) >= 2

\* C6: while the caller has closed the channel and not connected again, no
\* heartbeat interval and no reconnect timer is running, no ping is sent and
\* no socket is created.
C6_ClosedMeansQuiet ==
    callerClosed =>
        /\ timers = 0
        /\ intervals = {}
        /\ Count(fx, "new") = 0
        /\ \A i \in 1 .. Len(fx) : ~(fx[i].k = "send" /\ fx[i].s = "ping")


\* C25: handling a payload that is not JSON calls none of onDelta, onDone and
\* onError, and leaves the sockets, the heartbeat and the reconnect state as
\* they were.
C25_MalformedDropped ==
    [][(last'.op = "onmessage" /\ SafeParse(last'.msg).null) =>
            /\ Kinds(fx') \cap {"onDelta", "onDone", "onError"} = {}
            /\ UNCHANGED <<socks, ws, pingInterval, intervals, attempt,
                           reconnect, timers>>]_vars

\* C32: sendChat called without a socket, or with a socket that is not OPEN,
\* throws ws_not_open, sends no frame, and leaves the socket, the heartbeat
\* and the reconnect counter as they were.
C32_SendChatNotOpen ==
    [][(last'.op = "sendChat" /\ (ws = 0 \/ socks[ws] # "OPEN")) =>
            /\ fx' = <<Fx("throw", 0, "ws_not_open")>>
            /\ UNCHANGED <<socks, ws, pingInterval, intervals, attempt,
                           reconnect, timers>>]_vars

\* sendChat threw on a socket that was closing, with a reconnect counted
C32_Witness ==
    /\ last.op = "sendChat"
    /\ last.wsState = "CLOSING"
    /\ last.attempt > 0
    /\ fx = <<Fx("throw", 0, "ws_not_open")>>

\* C26: onopen leaves the attempt counter at zero, the counter is the number
\* of reconnects scheduled since the last onopen, and so an abnormal close
\* that finds fewer than maxReconnectAttempts of them, with reconnect
\* enabled, schedules one more, whatever was used before that open.
C26_OpenResetsBudget ==
    /\ last.op = "onopen" => attempt = 0
    /\ attempt = sinceOpen
    /\ (/\ last.op = "onclose" /\ last.code \notin NormalCodes
        /\ last.reconnect /\ last.sinceOpen < maxReconnectAttempts)
            => (Scheduled(1) /\ attempt = last.sinceOpen + 1)

\* a socket opened when the whole budget had been used
C26_Witness ==
    /\ last.op = "onopen"
    /\ maxReconnectAttempts > 0
    /\ last.attempt = maxReconnectAttempts
    /\ attempt = 0

\* the delay of the setTimeout the last handler made
Delay == (CHOOSE i \in 1 .. Len(fx) : fx[i].k = "setTimeout")

\* C27: the delay before the k-th consecutive reconnect since the last open
\* is min(1000 * 2^(k-1), 8000) ms plus a jitter in [0, 200), and never more
\* than 8199 ms.
C27_ReconnectBackoff ==
    (last.op = "onclose" /\ Scheduled(1)) =>
        LET k == last.sinceOpen + 1
            base == IF k >= 4 THEN 8000 ELSE 1000 * 2 ^ (k - 1)
            delay == fx[Delay].n
        IN  /\ delay >= base /\ delay < base + 200
            /\ delay <= 8199

\* the fifth consecutive reconnect, whose doubled base would pass the cap
C27_Witness ==
    /\ last.op = "onclose" /\ Scheduled(1)
    /\ last.sinceOpen = 4
    /\ fx[Delay].n >= 8000

\* C30: while the client's current socket is open, exactly one heartbeat
\* interval is active.
C30_OneHeartbeatWhileOpen ==
    (ws # 0 /\ socks[ws] = "OPEN") => Cardinality(intervals) = 1

(***************************************************************************)
(* Properties of a chat turn, checked under SpecChat.                      *)
(***************************************************************************)

\* the last handler was onmessage, delivering a frame of one of the types T on
\* the socket the pending turn sent its chat frame to
TurnFrame(T) ==
    /\ last.op = "onmessage"
    /\ last.pc = "ws"
    /\ last.sock = turn.sock
    /\ MsgType(SafeParse(last.msg)) \in T

\* the turn has ended with the outcome o, told to the caller once
Ended(o) == turn.pc = "idle" /\ turn.settles = 1 /\ turn.outcome \in o /\ ~isLoading

\* C7: a turn settles exactly once, as done or as one error; a turn sent over
\* the open WebSocket has settled, and isLoading is false, once the server's
\* done or error frame for it has been handled.
C7_TurnSettlesOnce ==
    /\ turn.settles <= 1
    /\ (turn.pc = "idle" /\ turn.n > 0) => Ended({"done", "error"})
    /\ TurnFrame({"done"}) => Ended({"done"})
    /\ TurnFrame({"error"}) => Ended({"error"})

\* C8: a turn whose sendChat threw is handed to chatStream exactly once and
\* sendChat is not called again for it; when that chatStream fails the turn
\* ends with an error.
C8_FallbackOnce ==
    /\ turn.wsThrew =>
            /\ turn.sendChats = 1
            /\ turn.streams = 1
            /\ turn.pc \in {"fallback", "idle"}
    /\ (last.op = "streamFail" /\ last.pc = "fallback") => Ended({"error"})

\* the fallback chatStream of a turn whose sendChat threw has failed
C8_Witness ==
    /\ turn.wsThrew
    /\ last.op = "streamFail" /\ last.pc = "fallback"
    /\ turn.streams = 1

\* C9: a turn that has received a delta over the WebSocket never starts
\* chatStream, and an error frame after that delta ends the turn with an error.
C9_NoSwitchAfterDelta ==
    /\ turn.wsDelta => turn.streams = 0
    /\ (turn.wsDelta /\ TurnFrame({"error"})) => Ended({"error"})

(***************************************************************************)
(* Properties of the retrying client, checked under SpecRetry.             *)
(***************************************************************************)

\* C10: once the caller has aborted the signal it passed, no network call of
\* the request is in flight and no attempt has been started after the abort.
C10_CancelStopsCall ==
    call.signal = "aborted" => (call.inflight = {} /\ call.afterAbort = 0)

\* the statuses the specification calls transient
TransientStatuses == {408, 429, 500, 502, 503, 504}

\* the outcome of the i-th attempt is a failure; a transient one
Failed(e) == e.kind # "http" \/ ~Ok(e.status)

Transient(e) == e.kind # "http" \/ e.status \in TransientStatuses

\* the call has ended
CallEnded == call.pc \in {"returned", "thrown"}

\* C11: a call whose first response has a non-retryable status (not ok and
\* outside the transient set, such as 400, 401, 404) issues exactly one network
\* call and returns, whatever retries is configured.
C11_NonRetryableOnce ==
    (/\ Len(call.log) >= 1
     /\ Failed(call.log[1])
     /\ ~Transient(call.log[1]))
        => (call.fetches = 1 /\ call.pc = "returned")

\* C12: a call performs at most retries + 1 network attempts, for every
\* configured retries >= 0; at most one attempt is in flight, and an attempt
\* starts only when every earlier one has finished and its backoff was slept.
C12_AttemptsBounded ==
    /\ call.fetches <= config.retries + 1
    /\ Cardinality(call.inflight) <= 1
    /\ call.pc = "fetching" =>
            /\ Len(call.log) = call.fetches - 1
            /\ Len(call.sleeps) = call.fetches - 1

\* the i-th attempt was followed by a retry; the call ended with it
Retried(i) == i < Len(call.log) \/ call.pc \in {"sleeping", "fetching"}

\* C13: a failed attempt is retried exactly when retries are not exhausted and
\* the failure is a timeout, a network error or a status in {408, 429, 500,
\* 502, 503, 504}; 501 and 404 are never retried, 408 and 429 are.
C13_RetriedIffTransient ==
    \A i \in 1 .. Len(call.log) :
        Failed(call.log[i]) =>
            (Retried(i) <=> (i <= call.maxRetries /\ Transient(call.log[i])))

\* the first n attempts were answered 503
All503(n) ==
    /\ Len(call.log) >= n
    /\ \A i \in 1 .. n : call.log[i] = [kind |-> "http", status |-> 503]

\* C14: a client constructed with no options, whose first k attempts are
\* answered 503 and whose attempt k + 1 is answered 200, returns the 200
\* response after exactly k + 1 fetches, for every k up to 3: after k answers
\* of 503 it goes on to attempt k + 1.
C14_DefaultRecovers ==
    config.retries = DefaultRetries =>
        \A k \in 0 .. 3 :
            /\ (k >= 1 /\ Len(call.log) = k /\ All503(k)) => ~CallEnded
            /\ (/\ Len(call.log) = k + 1 /\ All503(k)
                /\ call.log[k + 1] = [kind |-> "http", status |-> 200])
                    => (/\ call.pc = "returned" /\ call.result = 200
                        /\ call.fetches = k + 1)

\* the attempts the configuration permits
Permitted == config.retries + 1

\* what runTool throws for a failed attempt e
Thrown(e) ==
    IF e.kind = "http"
    THEN [state |-> "rejected", error |-> "Error", status |-> e.status]
    ELSE [state |-> "rejected", error |-> e.kind, status |-> 0]

\* C20: once every permitted attempt has failed runTool has rejected with the
\* failure of the last of them, and it does not wait or resolve; a transient
\* failure is thrown to the caller only when the permitted attempts are used
\* up; a fetch in flight has its deadline timer armed, so the call cannot hang.
C20_ExhaustionRejects ==
    /\ (/\ Len(call.log) >= Permitted
        /\ \A i \in 1 .. Permitted : Failed(call.log[i]))
            => RunTool(call) = Thrown(call.log[Permitted])
    /\ (/\ RunTool(call).state = "rejected"
        /\ Len(call.log) >= 1
        /\ Transient(call.log[Len(call.log)]))
            => Len(call.log) >= Permitted
    /\ call.pc = "fetching" => call.attempt \in call.deadlines

\* C28: the sleep between attempt n and attempt n + 1 is 1000 * 2^(n-1) ms,
\* the lower end of [base * 2^(n-1), base * 2^(n-1) + jitterMax], whether
\* attempt n failed with a 5xx response, a timeout or a network error.
C28_RetryBackoff ==
    \A n \in 1 .. Len(call.sleeps) : call.sleeps[n] = 1000 * 2 ^ (n - 1)

\* two sleeps, the first after a 5xx response and the second after a timeout
\* or a network error
C28_Witness ==
    /\ Len(call.sleeps) = 2
    /\ call.log[1].kind = "http"
    /\ call.log[2].kind # "http"

\* C29: a sleep that follows a response carrying a Retry-After value lasts
\* exactly that value.
C29_RetryAfterHonoured ==
    (/\ call.pc = "sleeping"
     /\ call.log[Len(call.log)].kind = "http"
     /\ call.retryAfter > 0)
        => call.sleeps[Len(call.sleeps)] = call.retryAfter * 1000

\* C17: after sendToLoggingService(entry), against an endpoint that answers
\* its first request 500 and the next 200, the endpoint has received exactly
\* two requests and the body of the second is the entry.
C17_LogDelivered ==
    logging.calls >= 1 =>
        /\ Len(logging.requests) = 2
        /\ logging.requests[2] = logging.entry

(***************************************************************************)
(* Properties of a timed request, checked under SpecTimed.                 *)
(***************************************************************************)

\* the call of fetchWithTimeout has thrown
TimedThrown == request.fn = "fetchWithTimeout" /\ request.pc = "thrown"

\* C21: when a timed attempt has ended, by a return or a throw, its deadline
\* timer is no longer pending: in fetchWithTimeout, and for every finished
\* attempt of fetchWithRetry.
C21_DeadlineCleared ==
    /\ request.pc \in {"returned", "thrown"} => ~request.timer
    /\ call.deadlines \subseteq call.inflight

\* C22 as stated: whenever the deadline timer aborted the call the failure is
\* the timeout, and an error that is no ApiError and no abort is the network
\* failure.
C22_TimeoutAsStated ==
    TimedThrown =>
        /\ request.abortedAt # "none" => request.error.message = "<context> timed out"
        /\ request.caught = "TypeError" => request.error.message = "<context> error"

\* C22: a deadline that aborts the pending fetch is reported as the timeout,
\* never as the network failure, and nothing else is reported as a timeout; a
\* deadline that aborts the reading of the body of a response that is not ok
\* is reported as the failure of that status; an error that is no ApiError
\* and no abort is reported as the network failure.
C22_TimeoutClassified ==
    TimedThrown =>
        /\ request.abortedAt = "fetching" <=>
                request.error.message = "<context> timed out"
        /\ request.abortedAt = "body" =>
                /\ request.error.status = request.status
                /\ request.error.message = "<context> failed <status>"
        /\ request.caught = "TypeError" <=>
                request.error.message = "<context> error"

\* the deadline aborted the pending fetch
C22_Witness ==
    /\ TimedThrown
    /\ request.abortedAt = "fetching"
    /\ request.error.cause = "AbortError"

\* C23: a failure of fetchWithTimeout is one ApiError, the only one made
\* during the call; the ApiError of a response that is not ok reaches the
\* caller as it was made, with its message and status and not as the cause of
\* another ApiError.
C23_NoDoubleWrap ==
    TimedThrown =>
        /\ request.error.name = "ApiError"
        /\ request.made = 1
        /\ request.error.cause # "ApiError"
        /\ request.caught = "ApiError" =>
                request.error = ApiError(request.detail, "none", request.status)

\* the ApiError of a response whose body carried a message passed the catch
C23_Witness ==
    /\ TimedThrown
    /\ request.caught = "ApiError"
    /\ request.body = "message"
    /\ request.error.message = "body.message"

\* C24: the failure thrown for a response that is not ok carries the status
\* of the response; its message is the body's message or detail when the
\* body is JSON with such a string, and <context> failed <status> otherwise,
\* also when the body could not be parsed.
C24_HttpFailure ==
    (request.pc = "thrown" /\ request.status # 0) =>
        /\ request.error.status = request.status
        /\ request.error.message =
                CASE request.body = "detail" -> "body.detail"
                  [] request.body \in {"message", "both"} -> "body.message"
                  [] OTHER -> "<context> failed <status>"

(***************************************************************************)
(* Properties of chatStream's decoder, checked under SpecStream.           *)
(***************************************************************************)

\* the decoder's state after the whole body arrived as one chunk
OneChunk(body) == Feed(Reading(body), Len(body))

\* C15: however the body was cut into chunks, the deltas passed to onDelta, in
\* order, and the text chatStream returns are those of the body fed as one
\* chunk.
C15_ChunkInvariance ==
    stream.pc = "returned" =>
        /\ stream.deltas = OneChunk(stream.body).deltas
        /\ stream.full = OneChunk(stream.body).full

\* a body of two events returned after a chunk had ended inside a line
C15_Witness ==
    /\ stream.pc = "returned"
    /\ stream.cut
    /\ Len(stream.deltas) >= 2

\* the line raw is the terminator line, data: [DONE]
IsTerminator(raw) == StartsWith(raw, DataPrefix) /\ Remainder(raw) = DoneToken

\* C16: the terminator is never passed to onDelta, and no line taken out of
\* the buffer after the terminator line gives a delta.
C16_DoneEndsStream ==
    /\ \A i \in 1 .. Len(stream.deltas) : stream.deltas[i] # DoneToken
    /\ \A i, j \in 1 .. Len(stream.trace) :
            (i < j /\ IsTerminator(stream.trace[i].raw)) => stream.trace[j].out = <<>>

RECURSIVE Concat(_)
Concat(seqs) == IF seqs = <<>> THEN <<>> ELSE Head(seqs) \o Concat(Tail(seqs))

\* the complete lines of a text, in order
RECURSIVE LinesOf(_)
LinesOf(text) ==
    LET nl == IndexOf(text, LF)
    IN  IF nl = 0 THEN <<>>
        ELSE <<SubSeq(text, 1, nl - 1)>> \o LinesOf(Slice(text, nl))

\* C18: the lines are handled in the order they have in the body, each gives
\* at most one onDelta call, the calls made are those of the lines in that
\* order, none merged, and full is the concatenation of the deltas in order.
C18_OrderAndConcatenation ==
    /\ [i \in 1 .. Len(stream.trace) |-> stream.trace[i].raw]
            = LinesOf(DecodeBytes(SubSeq(stream.body, 1, stream.pos)).text)
    /\ \A i \in 1 .. Len(stream.trace) : Len(stream.trace[i].out) <= 1
    /\ stream.deltas = Concat([i \in 1 .. Len(stream.trace) |-> stream.trace[i].out])
    /\ stream.full = Concat(stream.deltas)

\* two different deltas were passed, and a chunk had ended inside a line
C18_Witness ==
    /\ stream.pc = "returned"
    /\ stream.cut
    /\ Len(stream.deltas) = 2
    /\ stream.deltas[1] # stream.deltas[2]

\* the delta a line gives: Delta(s) for a remainder that is the JSON string s or
\* an object whose data is the string s, Delta(remainder) for one that is not
\* JSON; an empty s gives Delta(s) when emptyToo, nothing otherwise. The empty
\* remainder and the terminator give nothing, as does a line without the prefix.
LineRule(raw, out, emptyToo) ==
    LET rem == Remainder(raw)
        v == ParseJSON(rem)
    IN  IF ~StartsWith(raw, DataPrefix) \/ rem = <<>> \/ rem = DoneToken
        THEN out = <<>>
        ELSE /\ (v.type = "string" \/ v.hasData) =>
                    out = IF emptyToo \/ v.str # <<>> THEN <<v.str>> ELSE <<>>
             /\ ~v.ok => out = <<rem>>

\* C19 as stated: every JSON string and every string data field is a delta,
\* the empty string too.
C19_LineRuleAsStated ==
    \A i \in 1 .. Len(stream.trace) :
        LineRule(stream.trace[i].raw, stream.trace[i].out, TRUE)

\* C19: a line with the prefix whose remainder is a JSON string, or an object
\* with a string data field, gives that string as a delta when it is not
\* empty and nothing when it is empty; a remainder that is not JSON is itself
\* the delta; a line without the prefix gives nothing.
C19_LineRule ==
    \A i \in 1 .. Len(stream.trace) :
        LineRule(stream.trace[i].raw, stream.trace[i].out, FALSE)

\* a JSON string line and a line that is not JSON were both handled
C19_Witness ==
    \E i, j \in 1 .. Len(stream.trace) :
        /\ ParseJSON(Remainder(stream.trace[i].raw)).type = "string"
        /\ stream.trace[i].out # <<>>
        /\ StartsWith(stream.trace[j].raw, DataPrefix)
        /\ Remainder(stream.trace[j].raw) # DoneToken
        /\ ~ParseJSON(Remainder(stream.trace[j].raw)).ok
        /\ stream.trace[j].out = <<Remainder(stream.trace[j].raw)>>

\* the text after the last line feed
RECURSIVE AfterLastLF(_)
AfterLastLF(text) ==
    LET nl == IndexOf(text, LF)
    IN  IF nl = 0 THEN text ELSE AfterLastLF(Slice(text, nl))

\* C31: when the reader reports done, the text after the last line feed is
\* discarded: it is still in the buffer, only the terminated lines were
\* handled, and the deltas and the returned text are those of these lines.
C31_UnterminatedTailDiscarded ==
    stream.pc = "returned" =>
        LET text == DecodeBytes(stream.body).text
        IN  /\ stream.buf = AfterLastLF(text)
            /\ [i \in 1 .. Len(stream.trace) |-> stream.trace[i].raw] = LinesOf(text)
            /\ stream.deltas
                  = Concat([i \in 1 .. Len(LinesOf(text)) |-> LineDeltas(LinesOf(text)[i])])
            /\ stream.full = Concat(stream.deltas)

\* chatStream returned after a delta, with a final event line that lacked its
\* line feed and would have given another delta
C31_Witness ==
    /\ stream.pc = "returned"
    /\ stream.deltas # <<>>
    /\ StartsWith(stream.buf, DataPrefix)
    /\ LineDeltas(stream.buf) # <<>>

\* the transcript without the message that has the id
RECURSIVE Without(_, _)
Without(prev, id) ==
    IF prev = <<>> THEN <<>>
    ELSE IF Head(prev).id = id THEN Without(Tail(prev), id)
    ELSE <<Head(prev)>> \o Without(Tail(prev), id)

\* C33: when a turn fails, the one message removed from the transcript is the
\* turn's own assistant placeholder, the turn's user message stays and no
\* other message is removed, whatever was appended while the turn was in
\* flight; afterwards isLoading is false.
C33_FailedTurnRemovesPlaceholder ==
    [][last'.op \in {"streamFail", "chatFail"} =>
            /\ messages' = Without(messages, <<"assistant", turn.n>>)
            /\ \E i \in 1 .. Len(messages') : messages'[i].id = <<"user", turn.n>>
            /\ ~isLoading']_vars

(***************************************************************************)
(* Properties of the stores, checked under SpecAuth, SpecChatStore and     *)
(* SpecDeployment.                                                         *)
(***************************************************************************)

\* C34: isLoading is true in every state in which a sendMessage call is still
\* waiting for its response, also when two calls overlap and one finishes
\* first, and false once no call is in flight.
C34_LoadingWhileInFlight ==
    chatStore.isLoading <=> InFlight("sendMessage") # {}

\* C35: after logout() settles, user is null, token is null and
\* isAuthenticated is false, whether its network call succeeded or failed;
\* and a refresh() whose server call fails ends in that same state.
C35_LoggedOutAfterFailure ==
    /\ settled.op = "logout" => authStore = LoggedOut
    /\ (settled.op = "refresh" /\ settled.failed) => authStore = LoggedOut

\* the operation whose success gives a request the status
Deciding(status) ==
    CASE status = "approved" -> "approveRequest"
      [] status = "rejected" -> "rejectRequest"
      [] status = "deployed" -> "deployRequest"

=============================================================================
